---- MODULE Spec2Model ----
(***************************************************************************)
(* Model of Sample.py: a one-shot script that reads a Robot Framework      *)
(* result document, extracts statistics, metadata and the suite tree,      *)
(* renders an HTML dashboard and writes it to the output file.             *)
(*                                                                         *)
(* Conventions.  A Python value that may be None is a sequence of length   *)
(* 0 (None) or 1 (the value).  Element text is a sequence of one-character *)
(* strings, so that int(), str.split() and "%.2f" are computed and not     *)
(* assumed.  Message text is a sequence of tokens in which the two marker  *)
(* strings "Environment:" and "Executed by:" are single tokens.            *)
(***************************************************************************)
EXTENDS Integers, Sequences, FiniteSets, TLC

VARIABLES
    input,          \* command line, file system and document (never changes)
    pc,             \* position of the script
    root,           \* None until ET.parse succeeded
    passed, failed, skipped, total, pass_rate,
    start_time, executor, env_info,
    all_suites,
    total_time,
    template_data,
    rendered_html,
    output_file,    \* content of OUTPUT_FILE on disk, None when it does not exist
    stdout,         \* lines printed, each a sequence of string parts
    error,          \* the uncaught exception, None when there is none
    exit_code       \* None while the process runs

vars == <<input, pc, root, passed, failed, skipped, total, pass_rate,
          start_time, executor, env_info, all_suites, total_time,
          template_data, rendered_html, output_file, stdout, error, exit_code>>

----------------------------------------------------------------------------
(* Bounds of the model *)

MaxCount == 7
MaxTextLen == 3
MaxMsgLen == 2
MaxMsgs == 2
MaxRoots == 2
MaxChildren == 2

----------------------------------------------------------------------------
(* Python values *)

None == <<>>
Some(x) == <<x>>
IsNone(o) == Len(o) = 0
Get(o) == o[1]

RECURSIVE SeqsUpTo(_, _)
SeqsUpTo(S, n) ==
    IF n = 0 THEN {<<>>}
    ELSE LET shorter == SeqsUpTo(S, n - 1)
         IN  shorter \cup {Append(s, x) : s \in {t \in shorter : Len(t) = n - 1}, x \in S}

WhiteSpace == {" "}
DigitChars == <<"0", "1", "2", "3", "4", "5", "6", "7", "8", "9">>
IsDigit(c) == \E i \in 1..10 : DigitChars[i] = c
DigitVal(c) == (CHOOSE i \in 1..10 : DigitChars[i] = c) - 1

\* str.strip(): leading and trailing whitespace removed
RECURSIVE LStrip(_)
LStrip(s) == IF s # <<>> /\ Head(s) \in WhiteSpace THEN LStrip(Tail(s)) ELSE s
RECURSIVE RStrip(_)
RStrip(s) ==
    IF s # <<>> /\ s[Len(s)] \in WhiteSpace THEN RStrip(SubSeq(s, 1, Len(s) - 1)) ELSE s
Strip(s) == RStrip(LStrip(s))

\* str.split() without a separator: the maximal runs of non-whitespace
RECURSIVE SplitWs(_, _, _)
SplitWs(s, cur, acc) ==
    IF s = <<>> THEN (IF cur = <<>> THEN acc ELSE Append(acc, cur))
    ELSE IF Head(s) \in WhiteSpace
         THEN SplitWs(Tail(s), <<>>, IF cur = <<>> THEN acc ELSE Append(acc, cur))
         ELSE SplitWs(Tail(s), Append(cur, Head(s)), acc)
Split(s) == SplitWs(s, <<>>, <<>>)

RECURSIVE DigitsValue(_, _)
DigitsValue(s, acc) ==
    IF s = <<>> THEN acc ELSE DigitsValue(Tail(s), acc * 10 + DigitVal(Head(s)))

\* int(x) of an element text: TypeError on None, ValueError unless the
\* stripped text is an optional sign followed by one or more digits
IntOf(text) ==
    IF IsNone(text) THEN [ok |-> FALSE, exc |-> "TypeError"]
    ELSE LET s == Strip(Get(text))
             signed == s # <<>> /\ Head(s) \in {"+", "-"}
             ds == IF signed THEN Tail(s) ELSE s
         IN  IF ds = <<>> \/ \E i \in 1..Len(ds) : ~IsDigit(ds[i])
             THEN [ok |-> FALSE, exc |-> "ValueError"]
             ELSE [ok |-> TRUE,
                   val |-> IF signed /\ Head(s) = "-" THEN 0 - DigitsValue(ds, 0)
                           ELSE DigitsValue(ds, 0)]

\* str(n) for n >= 0
RECURSIVE Decimal(_)
Decimal(n) ==
    IF n < 10 THEN <<DigitChars[n + 1]>> ELSE Append(Decimal(n \div 10), DigitChars[(n % 10) + 1])

\* "%.2f" % x for the rational x = num/den, den > 0: x rounded to hundredths,
\* ties to even.  (The script evaluates x in binary floating point; the
\* two agree while the distance of x from a tie exceeds the float error,
\* which is so for every total below 32.)
Hundredths(x) ==
    LET a == IF x.num < 0 THEN 0 - x.num ELSE x.num
        q == (a * 100) \div x.den
        r == (a * 100) % x.den
    IN  IF 2 * r > x.den \/ (2 * r = x.den /\ q % 2 = 1) THEN q + 1 ELSE q

Format2f(x) ==
    LET h == Hundredths(x)
    IN  (IF x.num < 0 THEN <<"-">> ELSE <<>>)
        \o Decimal(h \div 100) \o <<".">>
        \o <<DigitChars[((h % 100) \div 10) + 1], DigitChars[(h % 10) + 1]>>

----------------------------------------------------------------------------
(* The result document.  generated and generator are attributes of the     *)
(* root; all is the one <all> element of the document, found under         *)
(* statistics/total, under a total that is not below statistics, or not at *)
(* all; msgs are the texts of the <msg> nodes in document order; children  *)
(* are the suite elements below the root.                                  *)

Text(chars) == Some(chars)
Elem(text) == Some(text)

AllElem(text, p, f, s) == [text |-> text, pass |-> p, fail |-> f, skip |-> s]

StatusElem(status, text) ==
    [status |-> status, starttime |-> "20240101 10:00:00.000",
     endtime |-> "20240101 10:00:05.000", text |-> text]

\* root.find(".//total//all")
FindTotalAll(r) == IF r.all_at = "absent" THEN None ELSE Some(r.all)

\* root.find(".//statistics/total/all")
FindStatisticsTotalAll(r) == IF r.all_at = "statistics" THEN Some(r.all) ELSE None

\* bool(element): an element is true when it has children
Truthy(all) == ~IsNone(all.pass) \/ ~IsNone(all.fail) \/ ~IsNone(all.skip)

IsSuite(e) == e.tag = "suite"
IsTest(e) == e.tag = "test"

\* element.findall(tag): the children with that tag, in document order
FindAll(e, tag) == SelectSeq(e.children, LAMBDA c : c.tag = tag)

----------------------------------------------------------------------------
(* The script *)

LOG_FILE == input.log_file
OUTPUT_FILE == input.output

\* an uncaught exception ends the process with a traceback and status 1
Abort(exc, at) ==
    /\ pc' = "aborted"
    /\ error' = Some([exc |-> exc, at |-> at])
    /\ exit_code' = Some(1)

\* CheckInput without the exit(1) of line 20
CheckInput_NoExit ==
    /\ pc = "check_input"
    /\ IF ~input.exists
       THEN stdout' = Append(stdout, <<"Error: ", LOG_FILE, " not found!">>)
       ELSE UNCHANGED stdout
    /\ pc' = "parse"
    /\ UNCHANGED <<input, root, passed, failed, skipped, total, pass_rate,
                   start_time, executor, env_info, all_suites, total_time,
                   template_data, rendered_html, output_file, error, exit_code>>

\* lines 18-20
CheckInput ==
    /\ pc = "check_input"
    /\ IF ~input.exists
       THEN /\ stdout' = Append(stdout, <<"Error: ", LOG_FILE, " not found!">>)
            /\ exit_code' = Some(1)
            /\ pc' = "exited"
       ELSE /\ pc' = "parse"
            /\ UNCHANGED <<stdout, exit_code>>
    /\ UNCHANGED <<input, root, passed, failed, skipped, total, pass_rate,
                   start_time, executor, env_info, all_suites, total_time,
                   template_data, rendered_html, output_file, error>>

\* lines 23-24: ET.parse raises ParseError on a document that is not well formed
ParseXml ==
    /\ pc = "parse"
    /\ IF ~input.exists
       THEN /\ Abort("FileNotFoundError", "parse")
            /\ UNCHANGED root
       ELSE IF input.wellformed
       THEN /\ root' = Some(input.doc)
            /\ pc' = "statistics"
            /\ UNCHANGED <<error, exit_code>>
       ELSE /\ Abort("ParseError", "parse")
            /\ UNCHANGED root
    /\ UNCHANGED <<input, passed, failed, skipped, total, pass_rate,
                   start_time, executor, env_info, all_suites, total_time,
                   template_data, rendered_html, output_file, stdout>>

\* int(stats_total.find(tag).text)
ReadCount(stats_total, tag) ==
    IF IsNone(stats_total) THEN [ok |-> FALSE, exc |-> "AttributeError"]
    ELSE LET child == Get(stats_total)[tag]
         IN  IF IsNone(child) THEN [ok |-> FALSE, exc |-> "AttributeError"]
             ELSE IntOf(Get(child))

\* PassRate without the factor 100
PassRate_Fraction(p, t) == IF t > 0 THEN [num |-> p, den |-> t] ELSE [num |-> 0, den |-> 1]

\* line 32; a rational [num, den]
PassRate(p, t) == IF t > 0 THEN [num |-> p * 100, den |-> t] ELSE [num |-> 0, den |-> 1]

\* lines 27-32
ExtractStatistics ==
    /\ pc = "statistics"
    /\ LET stats_total == FindTotalAll(Get(root))
           p == ReadCount(stats_total, "pass")
           f == ReadCount(stats_total, "fail")
           s == ReadCount(stats_total, "skip")
       IN  IF ~p.ok
           THEN /\ Abort(p.exc, "statistics")
                /\ UNCHANGED <<passed, failed, skipped, total, pass_rate>>
           ELSE IF ~f.ok
           THEN /\ Abort(f.exc, "statistics")
                /\ passed' = Some(p.val)
                /\ UNCHANGED <<failed, skipped, total, pass_rate>>
           ELSE IF ~s.ok
           THEN /\ Abort(s.exc, "statistics")
                /\ passed' = Some(p.val)
                /\ failed' = Some(f.val)
                /\ UNCHANGED <<skipped, total, pass_rate>>
           ELSE /\ passed' = Some(p.val)
                /\ failed' = Some(f.val)
                /\ skipped' = Some(s.val)
                /\ total' = Some(p.val + f.val + s.val)
                /\ pass_rate' = Some(PassRate(p.val, p.val + f.val + s.val))
                /\ pc' = "metadata"
                /\ UNCHANGED <<error, exit_code>>
    /\ UNCHANGED <<input, root, start_time, executor, env_info, all_suites,
                   total_time, template_data, rendered_html, output_file, stdout>>

\* MsgText without the fallback to ""
MsgText_Raw(msg) == msg

\* line 43: msg.text or ""
MsgText(msg) == IF IsNone(msg) THEN Some(<<>>) ELSE msg

\* marker in text
Contains(text, marker) == \E i \in 1..Len(text) : text[i] = marker

\* text.split(marker)[-1]: what follows the last occurrence of the marker
AfterLast(text, marker) ==
    LET last == CHOOSE i \in 1..Len(text) :
                    text[i] = marker /\ \A j \in (i + 1)..Len(text) : text[j] # marker
    IN  SubSeq(text, last + 1, Len(text))

\* lines 45 and 47: text.split(marker)[-1].strip()
ValueAfter(text, marker) == Strip(AfterLast(text, marker))

\* lines 42-47: the loop over the message nodes; st holds env_info and
\* executor, and exc the exception of the iteration that raised, if any
\* ("Environment:" in None is a TypeError)
RECURSIVE ScanMsgs(_, _)
ScanMsgs(msgs, st) ==
    IF msgs = <<>> THEN st
    ELSE LET text == MsgText(Head(msgs))
         IN  IF IsNone(text) THEN [st EXCEPT !.exc = Some("TypeError")]
             ELSE LET t == Get(text)
                      e == IF Contains(t, "Environment:")
                           THEN ValueAfter(t, "Environment:") ELSE st.env_info
                      x == IF Contains(t, "Executed by:")
                           THEN ValueAfter(t, "Executed by:") ELSE st.executor
                  IN  ScanMsgs(Tail(msgs), [st EXCEPT !.env_info = e, !.executor = x])

\* lines 35-47
ExtractMetadata ==
    /\ pc = "metadata"
    /\ LET r == Get(root)
           st == ScanMsgs(r.msgs,
                          [env_info |-> <<"Not specified">>,
                           executor |-> IF IsNone(r.generator) THEN <<"Unknown">>
                                        ELSE Get(r.generator),
                           exc |-> None])
       IN  /\ start_time' = Some(r.generated)
           /\ executor' = Some(st.executor)
           /\ env_info' = Some(st.env_info)
           /\ IF IsNone(st.exc)
              THEN pc' = "suites" /\ UNCHANGED <<error, exit_code>>
              ELSE Abort(Get(st.exc), "metadata")
    /\ UNCHANGED <<input, root, passed, failed, skipped, total, pass_rate,
                   all_suites, total_time, template_data, rendered_html,
                   output_file, stdout>>

Ok(v) == [ok |-> TRUE, val |-> v]
Raise(exc) == [ok |-> FALSE, exc |-> exc]

\* lines 63-73: elem.find("status").get(...) is an AttributeError when the
\* element has no status child
RECURSIVE ParseTests(_)
ParseTests(elems) ==
    IF elems = <<>> THEN Ok(<<>>)
    ELSE LET test_elem == Head(elems)
         IN  IF IsNone(test_elem.status) THEN Raise("AttributeError")
             ELSE LET st == Get(test_elem.status)
                      test_data == [name |-> test_elem.name,
                                    id |-> test_elem.id,
                                    status |-> st.status,
                                    starttime |-> st.starttime,
                                    endtime |-> st.endtime,
                                    elapsed |-> st.text,
                                    critical |-> IF IsNone(test_elem.critical) THEN "yes"
                                                 ELSE Get(test_elem.critical)]
                      rest == ParseTests(Tail(elems))
                  IN  IF rest.ok THEN Ok(<<test_data>> \o rest.val) ELSE rest

\* lines 50-75
RECURSIVE parse_suite(_)
RECURSIVE ParseSuiteElems(_)
parse_suite(element) == ParseSuiteElems(FindAll(element, "suite"))
ParseSuiteElems(elems) ==
    IF elems = <<>> THEN Ok(<<>>)
    ELSE LET suite_elem == Head(elems)
         IN  IF IsNone(suite_elem.status) THEN Raise("AttributeError")
             ELSE LET st == Get(suite_elem.status)
                      sub == parse_suite(suite_elem)
                      tests == ParseTests(FindAll(suite_elem, "test"))
                  IN  IF ~sub.ok THEN sub
                      ELSE IF ~tests.ok THEN tests
                      ELSE LET suite_data == [name |-> suite_elem.name,
                                              id |-> suite_elem.id,
                                              status |-> st.status,
                                              starttime |-> st.starttime,
                                              endtime |-> st.endtime,
                                              elapsed |-> st.text,
                                              tests |-> tests.val,
                                              sub_suites |-> sub.val]
                               rest == ParseSuiteElems(Tail(elems))
                           IN  IF rest.ok THEN Ok(<<suite_data>> \o rest.val) ELSE rest

\* ParseSuites that swallows the exception and goes on with no suites
ParseSuites_Lenient ==
    /\ pc = "suites"
    /\ LET res == parse_suite(Get(root))
       IN  all_suites' = Some(IF res.ok THEN res.val ELSE <<>>)
    /\ pc' = "prepare"
    /\ UNCHANGED <<input, root, passed, failed, skipped, total, pass_rate,
                   start_time, executor, env_info, total_time, template_data,
                   rendered_html, output_file, stdout, error, exit_code>>

\* line 77
ParseSuites ==
    /\ pc = "suites"
    /\ LET res == parse_suite(Get(root))
       IN  IF res.ok
           THEN /\ all_suites' = Some(res.val)
                /\ pc' = "prepare"
                /\ UNCHANGED <<error, exit_code>>
           ELSE /\ Abort(res.exc, "suites")
                /\ UNCHANGED all_suites
    /\ UNCHANGED <<input, root, passed, failed, skipped, total, pass_rate,
                   start_time, executor, env_info, total_time, template_data,
                   rendered_html, output_file, stdout>>

\* line 281: the last whitespace-separated word of the text of
\* statistics/total/all when that element is found and has children,
\* "N/A" otherwise; None.split is an AttributeError, [][-1] an IndexError
TotalTime(r) ==
    LET all == FindStatisticsTotalAll(r)
    IN  IF IsNone(all) \/ ~Truthy(Get(all)) THEN Ok(<<"N", "/", "A">>)
        ELSE IF IsNone(Get(all).text) THEN Raise("AttributeError")
        ELSE LET words == Split(Get(Get(all).text))
             IN  IF words = <<>> THEN Raise("IndexError") ELSE Ok(words[Len(words)])

\* lines 281-297
PrepareData ==
    /\ pc = "prepare"
    /\ LET tt == TotalTime(Get(root))
       IN  IF tt.ok
           THEN /\ total_time' = Some(tt.val)
                /\ template_data' =
                       Some([total |-> Get(total),
                             passed |-> Get(passed),
                             failed |-> Get(failed),
                             skipped |-> Get(skipped),
                             pass_rate |-> Get(pass_rate),
                             executor |-> Get(executor),
                             env_info |-> Get(env_info),
                             start_time |-> Get(start_time),
                             total_time |-> tt.val,
                             generated |-> input.now,
                             suites |-> Get(all_suites),
                             dark |-> FALSE])
                /\ pc' = "render"
                /\ UNCHANGED <<error, exit_code>>
           ELSE /\ Abort(tt.exc, "prepare")
                /\ UNCHANGED <<total_time, template_data>>
    /\ UNCHANGED <<input, root, passed, failed, skipped, total, pass_rate,
                   start_time, executor, env_info, all_suites, rendered_html,
                   output_file, stdout>>

\* str(n)
StrInt(n) == IF n < 0 THEN <<"-">> \o Decimal(0 - n) ELSE Decimal(n)

\* {{ x }} of a text that may be None
ShowText(o) == IF IsNone(o) THEN <<"N", "o", "n", "e">> ELSE Get(o)

\* {{ x }} of an attribute value that may be None
ShowAttr(o) == IF IsNone(o) THEN <<"None">> ELSE Get(o)

\* lines 203 and 209: the badge colour of a status
Badge(status, other) ==
    IF status = "PASS" THEN "success" ELSE IF status = "FAIL" THEN "danger" ELSE other

\* lines 206-212: one row per test, tagged suite-<id of the suite>
TestRows(suite, level) ==
    [i \in 1..Len(suite.tests) |->
        [class |-> "test-row", suite |-> suite.id, padding |-> (level + 1) * 35,
         name |-> suite.tests[i].name,
         badge |-> Badge(suite.tests[i].status, "secondary"),
         status |-> suite.tests[i].status,
         elapsed |-> ShowText(suite.tests[i].elapsed)]]

\* lines 197-216: the header row, the test rows, then the sub-suites
RECURSIVE render_suite(_, _)
RECURSIVE RenderSubSuites(_, _)
render_suite(suite, level) ==
    <<[class |-> "suite-header", suite |-> suite.id, padding |-> level * 25,
       name |-> suite.name,
       badge |-> Badge(suite.status, "warning"),
       status |-> suite.status,
       elapsed |-> ShowText(suite.elapsed)]>>
    \o TestRows(suite, level)
    \o RenderSubSuites(suite.sub_suites, level + 1)
RenderSubSuites(subs, level) ==
    IF subs = <<>> THEN <<>>
    ELSE render_suite(Head(subs), level) \o RenderSubSuites(Tail(subs), level)

\* line 218
SuiteBody(suites) == IF suites # <<>> THEN render_suite(suites[1], 0) ELSE <<>>

\* lines 105-245: the values the template interpolates
RenderTemplate(d) ==
    [body_class |-> IF d.dark THEN "dark-mode" ELSE "",
     generated |-> d.generated,
     total |-> StrInt(d.total),
     passed |-> StrInt(d.passed),
     failed |-> StrInt(d.failed),
     pass_rate |-> Format2f(d.pass_rate) \o <<"%">>,
     executor |-> d.executor,
     env_info |-> d.env_info,
     start_time |-> ShowAttr(d.start_time),
     total_time |-> d.total_time,
     rows |-> SuiteBody(d.suites),
     chart |-> <<StrInt(d.passed), StrInt(d.failed), StrInt(d.skipped)>>]

\* lines 300-302
Render ==
    /\ pc = "render"
    /\ rendered_html' = Some(RenderTemplate(Get(template_data)))
    /\ pc' = "save"
    /\ UNCHANGED <<input, root, passed, failed, skipped, total, pass_rate,
                   start_time, executor, env_info, all_suites, total_time,
                   template_data, output_file, stdout, error, exit_code>>

\* line 309: os.path.abspath of a relative path
AbsPath(path) == input.cwd \o "/" \o path

\* lines 305-316: open(OUTPUT_FILE, "w") raises OSError when the file cannot
\* be created or written; the feature list of lines 310-316 is fixed text
SaveOutput ==
    /\ pc = "save"
    /\ IF input.writable
       THEN /\ output_file' = rendered_html
            /\ stdout' = stdout \o <<<<"Dashboard generated successfully!">>,
                                     <<"Open ", AbsPath(OUTPUT_FILE), " in your browser.">>>>
            /\ pc' = "done"
            /\ exit_code' = Some(0)
            /\ UNCHANGED error
       ELSE /\ Abort("OSError", "save")
            /\ UNCHANGED <<output_file, stdout>>
    /\ UNCHANGED <<input, root, passed, failed, skipped, total, pass_rate,
                   start_time, executor, env_info, all_suites, total_time,
                   template_data, rendered_html>>

Next ==
    \/ CheckInput
    \/ ParseXml
    \/ ExtractStatistics
    \/ ExtractMetadata
    \/ ParseSuites
    \/ PrepareData
    \/ Render
    \/ SaveOutput

----------------------------------------------------------------------------
(* The inputs of a run.  A base run is varied in one respect at a time:    *)
(* the files, the statistics counts, the duration texts, the metadata and  *)
(* messages, the shape of the suite tree.                                  *)

\* the text of a pass, fail or skip element, or no such element
CountElems ==
    {None, Elem(None)}
    \cup {Elem(Text(Decimal(n))) : n \in 0..MaxCount}
    \cup {Elem(Text(<<"x">>)), Elem(Text(<<"-", "1">>)), Elem(Text(<<" ", "3", " ">>))}

\* the text of a status or all element: None or up to MaxTextLen characters
\* (an element without text has the text None, never the empty text)
DurationTexts ==
    {None} \cup {Text(t) : t \in SeqsUpTo({"5", "s", " "}, MaxTextLen) \ {<<>>}}

\* the text of a msg element: None or up to MaxMsgLen tokens
MsgTexts ==
    {None} \cup {Text(t) : t \in SeqsUpTo({"Environment:", "Executed by:", " ", "qa"},
                                          MaxMsgLen) \ {<<>>}}

\* the messages around it
PlainMsgs ==
    {None, Text(<<"note">>), Text(<<"Environment:", "ci">>),
     Text(<<"Executed by:", "ann">>)}

TestElem(id, status) ==
    [tag |-> "test", id |-> id, name |-> "Test " \o id, status |-> status,
     critical |-> None, children |-> <<>>]

SuiteElem(id, status, children) ==
    [tag |-> "suite", id |-> id, name |-> "Suite " \o id, status |-> status,
     critical |-> None, children |-> children]

\* the shapes of the children of a suite: tests only, or tests and suites
\* of tests
TestShape == [tag |-> "test", kids |-> <<>>]
LeafShapes == SeqsUpTo({TestShape}, MaxChildren)
InnerShapes ==
    SeqsUpTo({TestShape} \cup {[tag |-> "suite", kids |-> k] : k \in LeafShapes},
             MaxChildren)

\* the elements of a shape, with ids that spell their position
RECURSIVE Build(_, _, _)
Build(shapes, prefix, text) ==
    [i \in 1..Len(shapes) |->
        IF shapes[i].tag = "test"
        THEN TestElem(prefix \o "t" \o ToString(i), Some(StatusElem("PASS", text)))
        ELSE SuiteElem(prefix \o "s" \o ToString(i), Some(StatusElem("FAIL", text)),
                       Build(shapes[i].kids, prefix \o "s" \o ToString(i) \o "-", text))]

\* the suites below the root: none, or one suite of any shape followed by
\* up to MaxRoots - 1 suites of tests
RootShapes ==
    {<<>>}
    \cup {<<[tag |-> "suite", kids |-> k]>> \o more :
            k \in InnerShapes,
            more \in SeqsUpTo({[tag |-> "suite", kids |-> l] : l \in LeafShapes},
                              MaxRoots - 1)}

\* three levels of suites, tests before, between and after the suites
DeepShape ==
    <<[tag |-> "suite", kids |->
        <<TestShape,
          [tag |-> "suite", kids |->
            <<[tag |-> "suite", kids |-> <<TestShape, TestShape>>], TestShape>>],
          TestShape,
          [tag |-> "suite", kids |-> <<>>]>>]>>

BaseChildren ==
    <<SuiteElem("s1", Some(StatusElem("FAIL", Text(<<"1", "2">>))),
        <<TestElem("s1-t1", Some(StatusElem("PASS", Text(<<"7">>)))),
          SuiteElem("s1-s2", Some(StatusElem("FAIL", Text(<<"5">>))),
            <<TestElem("s1-s2-t1", Some(StatusElem("FAIL", Text(<<"5">>))))>>)>>)>>

BaseAll ==
    AllElem(Text(<<"5", "s">>), Elem(Text(<<"7">>)), Elem(Text(<<"2">>)), Elem(Text(<<"1">>)))

BaseDoc ==
    [generated |-> Some(<<"20240101 10:00:00.000">>),
     generator |-> Some(<<"Robot 6.0">>),
     all_at |-> "statistics",
     all |-> BaseAll,
     msgs |-> <<>>,
     children |-> BaseChildren]

\* what OUTPUT_FILE holds when an earlier run wrote it
OldReport == [body_class |-> "", generated |-> "January 01, 2024 09:00 AM"]

BaseInput ==
    [log_file |-> "output.xml", output |-> "robot_dashboard.html",
     cwd |-> "/home/user", now |-> "January 02, 2024 10:00 AM",
     exists |-> TRUE, wellformed |-> TRUE, writable |-> TRUE,
     out0 |-> None, doc |-> BaseDoc]

FileInputs ==
    {[BaseInput EXCEPT !.log_file = l, !.exists = e, !.wellformed = w,
                       !.writable = k, !.out0 = o] :
        l \in {"output.xml", "results/output.xml"}, e \in BOOLEAN, w \in BOOLEAN,
        k \in BOOLEAN, o \in {None, Some(OldReport)}}

StatDocs ==
    {[BaseDoc EXCEPT !.all = AllElem(Text(<<"5", "s">>), p, f, s)] :
        p \in CountElems, f \in CountElems, s \in CountElems}
    \cup {[BaseDoc EXCEPT !.all_at = "absent"]}

TimeDocs ==
    {[BaseDoc EXCEPT !.all_at = a, !.all = AllElem(t, c, c, c)] :
        a \in {"statistics", "elsewhere"}, t \in DurationTexts,
        c \in {Elem(Text(<<"1">>))}}
    \cup {[BaseDoc EXCEPT !.children =
              <<SuiteElem("s1", Some(StatusElem("PASS", tt[1])),
                  <<TestElem("s1-t1", Some(StatusElem("PASS", tt[2])))>>)>>] :
            tt \in {uu \in DurationTexts \X DurationTexts :
                       uu[1] = uu[2] \/ Text(<<"5", " ", "s">>) \in {uu[1], uu[2]}}}

\* up to MaxMsgs messages: one of any text, the others plain
MsgLists ==
    {<<>>}
    \cup {pp[1] \o <<m>> \o pp[2] :
            pp \in {qq \in SeqsUpTo(PlainMsgs, MaxMsgs - 1)
                           \X SeqsUpTo(PlainMsgs, MaxMsgs - 1) :
                       Len(qq[1]) + Len(qq[2]) < MaxMsgs},
            m \in MsgTexts}

MetaDocs ==
    {[BaseDoc EXCEPT !.msgs = m] : m \in MsgLists}
    \cup {[BaseDoc EXCEPT !.generated = g, !.generator = x, !.msgs = m] :
            g \in {None, BaseDoc.generated}, x \in {None, BaseDoc.generator},
            m \in {<<>>, <<None>>, <<Text(<<"Executed by:", "bob">>)>>}}

SuiteDocs ==
    {[BaseDoc EXCEPT !.children = Build(sh, "", Text(<<"5">>))] :
        sh \in RootShapes \cup {DeepShape}}

\* documents with and without the status elements
StatusDocs ==
    {[BaseDoc EXCEPT !.children =
              <<SuiteElem("s1", st1,
                  <<TestElem("s1-t1", st2),
                    SuiteElem("s1-s2", st3, <<TestElem("s1-s2-t1", st4)>>)>>)>>] :
            st1 \in {None, Some(StatusElem("PASS", None))},
            st2 \in {None, Some(StatusElem("SKIP", None))},
            st3 \in {None, Some(StatusElem("SKIP", Text(<<"5">>)))},
            st4 \in {None, Some(StatusElem("FAIL", Text(<<"5">>)))}}

Inputs ==
    FileInputs
    \cup {[BaseInput EXCEPT !.doc = d] :
            d \in StatDocs \cup TimeDocs \cup MetaDocs \cup SuiteDocs \cup StatusDocs}
    \cup {[BaseInput EXCEPT !.doc = d, !.out0 = Some(OldReport)] :
            d \in StatusDocs \cup {[BaseDoc EXCEPT !.all_at = "absent"],
                                   [BaseDoc EXCEPT !.all.skip = None],
                                   [BaseDoc EXCEPT !.all.text = None]}}

Init ==
    /\ input \in Inputs
    /\ pc = "check_input"
    /\ root = None
    /\ passed = None /\ failed = None /\ skipped = None
    /\ total = None /\ pass_rate = None
    /\ start_time = None /\ executor = None /\ env_info = None
    /\ all_suites = None
    /\ total_time = None
    /\ template_data = None
    /\ rendered_html = None
    /\ output_file = input.out0
    /\ stdout = <<>>
    /\ error = None
    /\ exit_code = None

Spec == Init /\ [][Next]_vars

----------------------------------------------------------------------------
(* Properties *)

Doc == input.doc
Started == pc # "check_input"
Failed(at) == pc = "aborted" /\ Get(error).at = at

\* C1: when the input file does not exist, the run prints an error line
\* that contains the path, ends with a non-zero status, and neither parses,
\* renders nor touches the output file.
C1_MissingInputExits ==
    (~input.exists /\ Started) =>
        /\ pc = "exited"
        /\ exit_code # None /\ Get(exit_code) # 0
        /\ \E i \in 1..Len(stdout) :
              stdout[i][1] = "Error: " /\ \E j \in 1..Len(stdout[i]) : stdout[i][j] = LOG_FILE
        /\ root = None
        /\ template_data = None
        /\ rendered_html = None
        /\ output_file = input.out0

C1_Witness ==
    ~input.exists /\ pc = "exited" /\ input.out0 # None
    /\ input.log_file = "results/output.xml"

\* a count element that holds a non-negative integer
IsCount(e) == ~IsNone(e) /\ IntOf(Get(e)).ok /\ IntOf(Get(e)).val >= 0
CountOf(e) == IntOf(Get(e)).val

\* C2: for a valid document the total is passed+failed+skipped when the
\* statistics block has a skip count, and passed+failed when it has none,
\* in which case the run still gets past the statistics.
C2_TotalIsSumOfPresentCounts ==
    ( /\ input.exists /\ input.wellformed /\ Doc.all_at # "absent"
      /\ IsCount(Doc.all.pass) /\ IsCount(Doc.all.fail)
      /\ (IsNone(Doc.all.skip) \/ IsCount(Doc.all.skip))
      /\ pc \notin {"check_input", "parse", "statistics"} )
    => /\ ~Failed("statistics")
       /\ total # None
       /\ Get(total) = CountOf(Doc.all.pass) + CountOf(Doc.all.fail)
                       + (IF IsNone(Doc.all.skip) THEN 0 ELSE CountOf(Doc.all.skip))

\* the two-decimal rendering of h hundredths, followed by the percent sign
Percent(h) ==
    Decimal(h \div 100)
    \o <<".", DigitChars[((h % 100) \div 10) + 1], DigitChars[(h % 10) + 1], "%">>

Abs(n) == IF n < 0 THEN 0 - n ELSE n

\* C3: for non-negative counts the pass rate is 0 when the total is 0 and
\* passed/total*100 otherwise, lies in [0,100], and is rendered as the
\* nearest number of hundredths with two decimals; 7, 2, 1 render 70.00%.
C3_PassRate ==
    (pass_rate # None /\ Get(passed) >= 0 /\ Get(failed) >= 0 /\ Get(skipped) >= 0) =>
        LET p == Get(passed)
            t == Get(total)
            x == Get(pass_rate)
            shown == rendered_html # None
        IN  /\ t = p + Get(failed) + Get(skipped)
            /\ x.den > 0
            /\ t = 0 => x.num = 0 /\ (shown => Get(rendered_html).pass_rate = Percent(0))
            /\ t > 0 =>
                 /\ x.num * t = p * 100 * x.den
                 /\ 0 <= x.num /\ x.num <= 100 * x.den
                 /\ shown => \E h \in 0..10000 :
                                /\ 2 * Abs(h * t - p * 10000) <= t
                                /\ Get(rendered_html).pass_rate = Percent(h)
            /\ (shown /\ p = 7 /\ Get(failed) = 2 /\ Get(skipped) = 1) =>
                 Get(rendered_html).pass_rate = <<"7", "0", ".", "0", "0", "%">>

C3_Witness ==
    /\ rendered_html # None
    /\ Get(passed) = 7 /\ Get(failed) = 2 /\ Get(skipped) = 1 /\ Get(total) = 10
    /\ Get(rendered_html).pass_rate = <<"7", "0", ".", "0", "0", "%">>

\* a suite below the root through suites only, or a test of such a suite,
\* that has no status element
RECURSIVE LacksStatus(_)
LacksStatus(children) ==
    \E i \in 1..Len(children) :
        /\ IsSuite(children[i])
        /\ \/ IsNone(children[i].status)
           \/ \E j \in 1..Len(children[i].children) :
                 IsTest(children[i].children[j]) /\ IsNone(children[i].children[j].status)
           \/ LacksStatus(children[i].children)

\* the document is malformed or lacks a node the loader expects
Defective ==
    \/ ~input.wellformed
    \/ Doc.all_at = "absent"
    \/ IsNone(Doc.all.pass) \/ IsNone(Doc.all.fail) \/ IsNone(Doc.all.skip)
    \/ LacksStatus(Doc.children)

\* C5: a run on a malformed document, or on one that lacks the statistics
\* block, one of its pass/fail/skip children or a status element, aborts
\* and leaves the output file as it was; the file is written only when
\* loading and rendering are complete, and holds the rendering.
C5_AbortNeverWrites ==
    /\ (input.exists /\ Defective) =>
          /\ output_file = input.out0
          /\ pc \notin {"prepare", "render", "save", "done"}
    /\ pc = "aborted" => output_file = input.out0
    /\ output_file # input.out0 =>
          /\ pc = "done"
          /\ all_suites # None /\ template_data # None /\ rendered_html # None
          /\ output_file = rendered_html

C5_Witness ==
    /\ Failed("suites") /\ Get(error).exc = "AttributeError"
    /\ LacksStatus(Doc.children)
    /\ input.out0 # None /\ output_file = input.out0

\* the suite and test elements below the given children, in document order
RECURSIVE DocOrder(_)
DocOrder(children) ==
    IF children = <<>> THEN <<>>
    ELSE LET e == Head(children)
         IN  <<[class |-> IF IsSuite(e) THEN "suite-header" ELSE "test-row",
                name |-> e.name]>>
             \o DocOrder(e.children) \o DocOrder(Tail(children))

RowKeys(rows) == [i \in 1..Len(rows) |-> [class |-> rows[i].class, name |-> rows[i].name]]

\* C4: the suite rows and test rows of the rendered table come in the
\* document order of the suite and test elements, also when a suite has
\* tests after or between its child suites.
C4_RowsInDocumentOrder ==
    rendered_html # None => RowKeys(Get(rendered_html).rows) = DocOrder(Doc.children)

\* a text that is present and is no number
NonNumeric(text) == ~IsNone(text) /\ ~IntOf(text).ok

\* the status texts of the suites and tests below the given children
RECURSIVE StatusTexts(_)
StatusTexts(children) ==
    IF children = <<>> THEN {}
    ELSE LET e == Head(children)
         IN  (IF IsNone(e.status) THEN {}
              ELSE {[class |-> IF IsSuite(e) THEN "suite-header" ELSE "test-row",
                     name |-> e.name, text |-> Get(e.status).text]})
             \cup StatusTexts(e.children) \cup StatusTexts(Tail(children))

\* C6: non-numeric duration text of a suite, of a test and of the run total
\* reaches the rendered output unchanged and never aborts the run.
C6_DurationTextVerbatim ==
    /\ (Failed("prepare") /\ Doc.all_at = "statistics") => ~NonNumeric(Doc.all.text)
    /\ rendered_html # None =>
          /\ (Doc.all_at = "statistics" /\ NonNumeric(Doc.all.text)) =>
                Get(rendered_html).total_time = Get(Doc.all.text)
          /\ \A e \in StatusTexts(Doc.children) :
                NonNumeric(e.text) =>
                    \E i \in 1..Len(Get(rendered_html).rows) :
                        /\ Get(rendered_html).rows[i].class = e.class
                        /\ Get(rendered_html).rows[i].name = e.name
                        /\ Get(rendered_html).rows[i].elapsed = Get(e.text)

\* the text of message i, "" when it has none
TextOfMsg(i) == IF IsNone(Doc.msgs[i]) THEN <<>> ELSE Get(Doc.msgs[i])

Mentions(i, marker) == \E k \in 1..Len(TextOfMsg(i)) : TextOfMsg(i)[k] = marker

\* v is what follows the last marker of text, without the whitespace around it
IsStrippedTail(v, text, marker) ==
    \E k \in 1..Len(text) :
        /\ text[k] = marker
        /\ \A j \in (k + 1)..Len(text) : text[j] # marker
        /\ \E lo \in (k + 1)..(Len(text) + 1), hi \in k..Len(text) :
              /\ v = SubSeq(text, lo, hi)
              /\ \A j \in (k + 1)..(lo - 1) : text[j] \in WhiteSpace
              /\ \A j \in (hi + 1)..Len(text) : text[j] \in WhiteSpace
              /\ v # <<>> => (v[1] \notin WhiteSpace /\ v[Len(v)] \notin WhiteSpace)

\* value is the default when no message mentions the marker, and the
\* stripped tail of the last message that does otherwise
ScannedValue(value, marker, default) ==
    LET hits == {i \in 1..Len(Doc.msgs) : Mentions(i, marker)}
    IN  IF hits = {} THEN value = default
        ELSE LET last == CHOOSE i \in hits : \A j \in hits : j <= i
             IN  IsStrippedTail(value, TextOfMsg(last), marker)

\* C7: the scan over the message nodes never aborts the run, with or
\* without message text; without a match the environment is "Not specified"
\* and the executor the generator attribute or else "Unknown"; with a match
\* the value is the stripped text after the marker.
C7_MetadataScan ==
    /\ ~Failed("metadata")
    /\ pc \notin {"check_input", "parse", "statistics", "metadata", "exited", "aborted"}
          => env_info # None /\ executor # None
    /\ env_info # None =>
          ScannedValue(Get(env_info), "Environment:", <<"Not specified">>)
    /\ executor # None =>
          ScannedValue(Get(executor), "Executed by:",
                       IF IsNone(Doc.generator) THEN <<"Unknown">> ELSE Get(Doc.generator))

C7_Witness ==
    /\ pc = "done"
    /\ \E i \in 1..Len(Doc.msgs) : IsNone(Doc.msgs[i])
    /\ \E i \in 1..Len(Doc.msgs) : Mentions(i, "Environment:")
    /\ Get(env_info) = <<"qa">>
    /\ Get(executor) = Get(Doc.generator)

\* C8: the generation timestamp, the executor and the elapsed time handed
\* to the renderer are "Unknown" whenever the attribute or node they come
\* from is absent (for the executor: and no message names one).
C8_UnknownWhenAbsent ==
    template_data # None =>
        /\ IsNone(Doc.generated) => Get(template_data).start_time = Some(<<"Unknown">>)
        /\ (IsNone(Doc.generator) /\ \A i \in 1..Len(Doc.msgs) : ~Mentions(i, "Executed by:"))
              => Get(template_data).executor = <<"Unknown">>
        /\ IsNone(FindStatisticsTotalAll(Doc))
              => Get(template_data).total_time = <<"U", "n", "k", "n", "o", "w", "n">>

\* C9: the suite structure handed to the renderer has one root when the
\* document has suites and none when it has none, never two or more.
C9_AtMostOneRoot ==
    all_suites # None =>
        Len(Get(all_suites)) = (IF \E i \in 1..Len(Doc.children) : IsSuite(Doc.children[i])
                                THEN 1 ELSE 0)

\* the suites of a parsed suite list, at every depth
RECURSIVE ParsedSuites(_)
ParsedSuites(suites) ==
    IF suites = <<>> THEN {}
    ELSE {Head(suites)} \cup ParsedSuites(Head(suites).sub_suites)
         \cup ParsedSuites(Tail(suites))

Count(rows, P(_)) == Cardinality({i \in 1..Len(rows) : P(rows[i])})

\* C10: every parsed suite has exactly one header row and every test of it
\* exactly one test row tagged with the id of that suite.
C10_EveryParsedSuiteRendered ==
    rendered_html # None =>
        LET rows == Get(rendered_html).rows
        IN  \A su \in ParsedSuites(Get(all_suites)) :
              /\ Count(rows, LAMBDA r : r.class = "suite-header" /\ r.suite = su.id) = 1
              /\ \A i \in 1..Len(su.tests) :
                    /\ Count(rows, LAMBDA r : r.class = "test-row" /\ r.name = su.tests[i].name) = 1
                    /\ Count(rows, LAMBDA r : /\ r.class = "test-row"
                                              /\ r.name = su.tests[i].name
                                              /\ r.suite = su.id) = 1

====
